---- MODULE Spec2Model ----
(***************************************************************************)
(* Model of hotel/pms_systems.py: the Mews PMS adapter (handle_webhook,    *)
(* update_tomorrows_stays, stay_has_breakfast), the adapter registry       *)
(* (get_pms), the reconciliation functions (update_or_create_guest,        *)
(* update_or_create_stay), the language resolver (get_guest_language) and  *)
(* the retrying call wrapper (make_api_call_with_retry).                   *)
(*                                                                         *)
(* Python values are represented as follows.                               *)
(*   None in a string-valued field   PyNone                                *)
(*   None as a record id             NoId  (Django ids start at 1)         *)
(*   NULL timestamp                  NoTime                                *)
(*   a raised exception              the name of its class, "none" if the  *)
(*                                   call returned normally                *)
(*   a Guest name                    [text, uuid]: the vendor's name, or   *)
(*                                   the n-th value drawn from uuid4()     *)
(* The Guest and Stay tables are sequences; a row's id is its index, which *)
(* is how an auto-increment primary key behaves when nothing is deleted.   *)
(***************************************************************************)
EXTENDS Integers, Sequences, FiniteSets, TLC

VARIABLES
    hotels,      \* Hotel table: set of rows [id, pms_hotel_id]
    guests,      \* Guest table: sequence of rows
    stays,       \* Stay table: sequence of rows
    uuid_count,  \* number of values uuid.uuid4() has produced so far
    clock,       \* wall-clock time
    now,         \* the module-level `now`, evaluated once at import
    last,        \* the last operation called: its arguments and its outcome
    inflight     \* per worker: the reconciliation it is in and where in it

vars == <<hotels, guests, stays, uuid_count, clock, now, last, inflight>>

\* ---------------------------------------------------------------- bounds
MaxClock == 3
MaxUuid == 2
MaxFails == 11
MaxEvents == 2

\* ------------------------------------------------------- value encodings
PyNone == "<None>"
NoId == 0
NoTime == 0

Falsy(s) == s = PyNone \/ s = ""

\* str.lower() on the strings the model uses
LowerTable ==
    ("NL" :> "nl") @@ ("Nl" :> "nl") @@ ("nL" :> "nl")
        @@ ("DE" :> "de") @@ ("De" :> "de") @@ ("dE" :> "de")
        @@ ("XX" :> "xx") @@ ("Xx" :> "xx") @@ ("xX" :> "xx")
        @@ ("EN" :> "en") @@ ("En" :> "en") @@ ("eN" :> "en")
        @@ ("FR" :> "fr") @@ ("Fr" :> "fr") @@ ("fR" :> "fr")
        @@ ("ES" :> "es") @@ ("Es" :> "es") @@ ("eS" :> "es")
        @@ ("IT" :> "it") @@ ("It" :> "it") @@ ("iT" :> "it")
        @@ ("PT" :> "pt") @@ ("Pt" :> "pt") @@ ("pT" :> "pt")
        @@ ("GB" :> "gb") @@ ("Gb" :> "gb") @@ ("gB" :> "gb")
        @@ ("US" :> "us") @@ ("Us" :> "us") @@ ("uS" :> "us")
        @@ ("BE" :> "be") @@ ("Be" :> "be") @@ ("bE" :> "be")
        @@ ("DK" :> "dk") @@ ("Dk" :> "dk") @@ ("dK" :> "dk")
        @@ ("SE" :> "se") @@ ("Se" :> "se") @@ ("sE" :> "se")
Lower(s) == IF s \in DOMAIN LowerTable THEN LowerTable[s] ELSE s

\* str.capitalize() on the strings the model uses
CapitalizeTable == ("mews" :> "Mews") @@ ("MEWS" :> "Mews") @@ ("opera" :> "Opera")
Capitalize(s) == IF s \in DOMAIN CapitalizeTable THEN CapitalizeTable[s] ELSE s

\* ------------------------------------------------------ language resolver
\* hotel.models.Language.choices: (value, label) pairs
LanguageChoices == << <<"nl", "Dutch">>, <<"de", "German">> >>

\* faulty variant of country_key: the code is compared as it was given
country_key_as_given(country) == country

\* country.lower(), line 186
country_key(country) == Lower(country)

RECURSIVE language_loop(_, _)
language_loop(i, country) ==
    IF i > Len(LanguageChoices) THEN "None"
    ELSE IF LanguageChoices[i][1] = country_key(country) THEN LanguageChoices[i][2]
    ELSE language_loop(i + 1, country)

get_guest_language(country) ==
    IF Falsy(country) THEN "None" ELSE language_loop(1, country)

\* ------------------------------------------------------------ Guest table
GuestName(db, name) ==
    IF Falsy(name) THEN [text |-> "", uuid |-> db.uuid_count + 1]
    ELSE [text |-> name, uuid |-> 0]

UuidDrawn(db, name) ==
    IF Falsy(name) THEN [db EXCEPT !.uuid_count = @ + 1] ELSE db

\* Guest.objects.filter(phone=...)
guest_filter(gs, phone) == {i \in DOMAIN gs : gs[i].phone = phone}

\* faulty variant of no_usable_phone: the sentinel is not tested
no_usable_phone_sentinel_forgotten(phone) == Falsy(phone)

\* the test of line 151
no_usable_phone(phone) == Falsy(phone) \/ phone = "Not available"

\* Guest.objects.get(phone=...).id
guest_get_id(gs, phone) ==
    LET hit == guest_filter(gs, phone)
    IN  IF hit = {} THEN [exc |-> "DoesNotExist", id |-> NoId]
        ELSE IF Cardinality(hit) > 1 THEN [exc |-> "MultipleObjectsReturned", id |-> NoId]
        ELSE [exc |-> "none", id |-> CHOOSE i \in hit : TRUE]

\* lines 156-158: update of every row of that phone, then the id by get()
guest_update_branch(db, guest, language) ==
    LET hit == guest_filter(db.guests, guest.Phone)
        gs2 == [i \in DOMAIN db.guests |->
                   IF i \in hit
                   THEN [db.guests[i] EXCEPT !.name = GuestName(db, guest.Name),
                                              !.phone = guest.Phone,
                                              !.language = language,
                                              !.updated_at = now]
                   ELSE db.guests[i]]
        db2 == [UuidDrawn(db, guest.Name) EXCEPT !.guests = gs2]
        got == guest_get_id(gs2, guest.Phone)
    IN  [exc |-> got.exc, guest_id |-> got.id, db |-> db2]

\* lines 160-163: a new row, then its id by exists() and get()
guest_create_branch(db, guest, language) ==
    LET row == [id |-> Len(db.guests) + 1, name |-> GuestName(db, guest.Name),
                phone |-> guest.Phone, language |-> language,
                created_at |-> now, updated_at |-> NoTime]
        gs2 == Append(db.guests, row)
        db2 == [UuidDrawn(db, guest.Name) EXCEPT !.guests = gs2]
        got == IF guest_filter(gs2, guest.Phone) = {}
               THEN [exc |-> "none", id |-> NoId]
               ELSE guest_get_id(gs2, guest.Phone)
    IN  [exc |-> got.exc, guest_id |-> got.id, db |-> db2]

\* faulty variant of guest_exists: the row is never found
guest_exists_never(gs, phone) == FALSE

\* guest_from_db.exists()
guest_exists(gs, phone) == guest_filter(gs, phone) # {}

update_or_create_guest(db, guest) ==
    LET language == get_guest_language(guest.Country)
    IN  IF no_usable_phone(guest.Phone)
        THEN [exc |-> "none", guest_id |-> NoId, db |-> db]
        ELSE IF guest_exists(db.guests, guest.Phone)
             THEN guest_update_branch(db, guest, language)
             ELSE guest_create_branch(db, guest, language)

\* ------------------------------------------------------------- Stay table
\* Hotel.objects.all().get(pms_hotel_id=...).id
hotel_get_id(hs, pms_hotel_id) ==
    LET hit == {h \in hs : h.pms_hotel_id = pms_hotel_id}
    IN  IF hit = {} THEN [exc |-> "DoesNotExist", id |-> NoId]
        ELSE IF Cardinality(hit) > 1 THEN [exc |-> "MultipleObjectsReturned", id |-> NoId]
        ELSE [exc |-> "none", id |-> (CHOOSE h \in hit : TRUE).id]

\* Stay.objects.filter(pms_reservation_id=...)
stay_filter(ss, rid) == {i \in DOMAIN ss : ss[i].pms_reservation_id = rid}

\* faulty variant of stay_exists: the row is never found
stay_exists_never(ss, rid) == FALSE

\* stay_from_db.exists()
stay_exists(ss, rid) == stay_filter(ss, rid) # {}

\* faulty variant of stay_update_branch: the rows found are replaced by one
\* new row
stay_update_branch_reinserts(ss, hotel_id, stay, guest_id) ==
    LET kept == SelectSeq(ss, LAMBDA row : row.pms_reservation_id # stay.ReservationId)
    IN  Append(kept, [id |-> Len(ss) + 1, hotel_id |-> hotel_id,
                      pms_reservation_id |-> stay.ReservationId,
                      pms_guest_id |-> stay.GuestId, guest_id |-> guest_id,
                      status |-> stay.Status, checkin |-> stay.CheckInDate,
                      checkout |-> stay.CheckOutDate,
                      created_at |-> now, updated_at |-> NoTime])

\* faulty variant of stay_update_branch: guest_id is not written
stay_update_branch_keeps_guest(ss, hotel_id, stay, guest_id) ==
    [i \in DOMAIN ss |->
        IF i \in stay_filter(ss, stay.ReservationId)
        THEN [ss[i] EXCEPT !.hotel_id = hotel_id,
                           !.pms_reservation_id = stay.ReservationId,
                           !.pms_guest_id = stay.GuestId,
                           !.status = stay.Status,
                           !.checkin = stay.CheckInDate,
                           !.checkout = stay.CheckOutDate,
                           !.updated_at = now]
        ELSE ss[i]]

\* stay_from_db.update(...), lines 174-175
stay_update_branch(ss, hotel_id, stay, guest_id) ==
    [i \in DOMAIN ss |->
        IF i \in stay_filter(ss, stay.ReservationId)
        THEN [ss[i] EXCEPT !.hotel_id = hotel_id,
                           !.pms_reservation_id = stay.ReservationId,
                           !.pms_guest_id = stay.GuestId,
                           !.guest_id = guest_id,
                           !.status = stay.Status,
                           !.checkin = stay.CheckInDate,
                           !.checkout = stay.CheckOutDate,
                           !.updated_at = now]
        ELSE ss[i]]

\* Stay(...).save(), lines 177-179
stay_create_branch(ss, hotel_id, stay, guest_id) ==
    Append(ss, [id |-> Len(ss) + 1, hotel_id |-> hotel_id,
                pms_reservation_id |-> stay.ReservationId,
                pms_guest_id |-> stay.GuestId, guest_id |-> guest_id,
                status |-> stay.Status, checkin |-> stay.CheckInDate,
                checkout |-> stay.CheckOutDate,
                created_at |-> now, updated_at |-> NoTime])

\* get() raises DoesNotExist when no Hotel row matches, before line 169 is
\* reached; line 169 tests the id of the row that was found
update_or_create_stay(db, stay, guest_id) ==
    LET got == hotel_get_id(hotels, stay.HotelId)
    IN  IF got.exc # "none" THEN [exc |-> got.exc, db |-> db]
        ELSE IF got.id = NoId THEN [exc |-> "IncorrectHotelIdException", db |-> db]
        ELSE IF stay_exists(db.stays, stay.ReservationId)
             THEN [exc |-> "none",
                   db |-> [db EXCEPT !.stays = stay_update_branch(@, got.id, stay, guest_id)]]
             ELSE [exc |-> "none",
                   db |-> [db EXCEPT !.stays = stay_create_branch(@, got.id, stay, guest_id)]]

DB == [guests |-> guests, stays |-> stays, uuid_count |-> uuid_count]

\* ------------------------------------------------------- adapter registry
\* the class names of the module that start with "PMS_", as <<prefix, rest>>
PmsClassNames == {<<"PMS_", "Mews">>}
NoPms == "False"

\* returns the name of the class it instantiates, NoPms for Python's False
get_pms(name) ==
    LET fullname == <<"PMS_", Capitalize(name)>>
    IN  IF fullname \in PmsClassNames THEN "PMS_Mews" ELSE NoPms

\* PMS.name of a PMS_Mews instance: the class name without its first 4 letters
self_name == "Mews"

\* -------------------------------------------------------- payload cleaning
\* A raw payload is [kind, obj]:
\*   "json"     a JSON text whose parsed value is obj
\*   "empty"    the empty string, or None
\*   "garbage"  a text that is not JSON
\*   "badkeys"  a JSON text with an object key that is no valid identifier
Json(obj) == [kind |-> "json", obj |-> obj]
EmptyPayload == [kind |-> "empty", obj |-> <<>>]
GarbagePayload == [kind |-> "garbage", obj |-> <<>>]
BadKeysPayload == [kind |-> "badkeys", obj |-> <<>>]
NoData == <<>>

\* "empty":   line 85 raises JsonValueError
\* "garbage": json.loads raises JSONDecodeError and line 89 raises the class
\*            JSONDecodeError without the arguments its constructor requires,
\*            which is a TypeError
\* "badkeys": namedtuple raises ValueError, which line 88 does not catch
clean_webhook_payload(payload) ==
    IF payload.kind = "empty" THEN [exc |-> "JsonValueError", data |-> NoData]
    ELSE IF payload.kind = "garbage" THEN [exc |-> "TypeError", data |-> NoData]
    ELSE IF payload.kind = "badkeys" THEN [exc |-> "ValueError", data |-> NoData]
    ELSE [exc |-> "none", data |-> payload.obj]

\* ---------------------------------------------------- retrying call wrapper
RetryLimit == 10
RetryExhausted == 10

\* A remote call is [fails, raises, resp]: its first `fails` invocations raise
\* APIError; every later one raises `raises` unless that is "none", and
\* otherwise returns the raw payload resp.
request_outcome(request, nth) ==
    IF nth <= request.fails THEN [exc |-> "APIError", data |-> NoData]
    ELSE IF request.raises # "none" THEN [exc |-> request.raises, data |-> NoData]
    ELSE [exc |-> "none", data |-> request.resp]

\* pms.clean_webhook_payload(data), pms being what get_pms returned
pms_clean(pms, data) ==
    IF pms = NoPms THEN [exc |-> "AttributeError", data |-> NoData]
    ELSE clean_webhook_payload(data)

\* faulty variant of after_loop: exhaustion is not raised
after_loop_returns_none(retry_times, data, calls) ==
    [exc |-> "none", data |-> data, calls |-> calls]

\* lines 206-209
after_loop(retry_times, data, calls) ==
    IF retry_times = RetryExhausted
    THEN [exc |-> "APIError", data |-> NoData, calls |-> calls]
    ELSE [exc |-> "none", data |-> data, calls |-> calls]

\* faulty variant of loop_continues: one iteration too many
loop_continues_once_more(retry_times) == retry_times <= RetryLimit

\* the condition of the while loop, line 197
loop_continues(retry_times) == retry_times < RetryLimit

\* faulty variant of counter_after_success: a success is counted as a retry
counter_after_success_bumped(retry_times) == retry_times + 1

\* the retry counter after an iteration that did not raise APIError
counter_after_success(retry_times) == retry_times

\* faulty variant of retried: every error is retried
retried_any_error(exc) == exc # "none"

\* the except clause of line 202: what the try block raised is caught
retried(exc) == exc = "APIError"

\* the while loop of lines 197-204; the try block raises what the remote call
\* raised or, the remote call having answered, what the cleaning raised
RECURSIVE retry_loop(_, _, _, _)
retry_loop(pms, request, retry_times, calls) ==
    IF loop_continues(retry_times)
    THEN LET r == request_outcome(request, calls + 1)
             c == pms_clean(pms, r.data)
             exc == IF r.exc # "none" THEN r.exc ELSE c.exc
         IN  IF retried(exc)
             THEN retry_loop(pms, request, retry_times + 1, calls + 1)
             ELSE IF exc # "none"
             THEN [exc |-> exc, data |-> NoData, calls |-> calls + 1]
             ELSE after_loop(counter_after_success(retry_times), c.data, calls + 1)
    ELSE after_loop(retry_times, NoData, calls)

make_api_call_with_retry(pms_name, request) ==
    retry_loop(get_pms(pms_name), request, 0, 0)

\* ------------------------------------------------------ exception classes
\* hotel.exceptions.JsonValueError: whether it derives from ValueError. The
\* design lists a malformed payload apart from the ValueError class.
JsonValueErrorIsValueError == FALSE

\* the classes of the model's exceptions that are ValueError or derive from it
ValueErrorClasses ==
    {"ValueError"} \cup (IF JsonValueErrorIsValueError THEN {"JsonValueError"} ELSE {})

\* faulty variant of except_clause: every exception is skipped
except_clause_swallows_all(exc) == "continue"

\* faulty variant of except_clause: the ValueError clause is missing
except_clause_without_value_error(exc) ==
    IF exc = "IncorrectHotelIdException" THEN "continue" ELSE "return False"

\* the except clauses of lines 102-107 and 125-130; every exception of the
\* model derives from Exception, and hotel.external_api.APIError and Django's
\* DoesNotExist and MultipleObjectsReturned derive from neither
\* IncorrectHotelIdException nor ValueError
except_clause(exc) ==
    IF exc = "IncorrectHotelIdException" THEN "continue"
    ELSE IF exc \in ValueErrorClasses THEN "continue"
    ELSE "return False"

\* ------------------------------------------------------------ the vendor
\* A vendor is the behaviour of the three remote calls of hotel.external_api:
\*   vendor.get_reservation_details[rid]             a remote call
\*   vendor.get_guest_details[gid]                   a remote call
\*   vendor.get_reservations_for_given_checkin_date  a remote call

CallLog(fn, param, calls) == [fn |-> fn, param |-> param, calls |-> calls]

\* ------------------------------------------------------------ PMS_Mews
\* F applied to the value of v, v being evaluated once: the model's form of
\* an assignment `x = v` followed by statements that read x
Bind(v, F(_)) == CHOOSE y \in {F(x) : x \in {v}} : TRUE

\* the try block of lines 96-100: what it raised, the tables after it and the
\* remote calls it made
webhook_event(db, event, vendor) ==
    Bind(make_api_call_with_retry(self_name,
             vendor.get_reservation_details[event.Value.ReservationId]),
    LAMBDA stay :
      LET log1 == <<CallLog("get_reservation_details", event.Value.ReservationId,
                            stay.calls)>>
      IN  IF stay.exc # "none" THEN [exc |-> stay.exc, db |-> db, log |-> log1]
          ELSE
    Bind(make_api_call_with_retry(self_name, vendor.get_guest_details[stay.data.GuestId]),
    LAMBDA guest :
      LET log2 == Append(log1, CallLog("get_guest_details", stay.data.GuestId, guest.calls))
      IN  IF guest.exc # "none" THEN [exc |-> guest.exc, db |-> db, log |-> log2]
          ELSE
    Bind(update_or_create_guest(db, guest.data),
    LAMBDA ug :
      IF ug.exc # "none" THEN [exc |-> ug.exc, db |-> ug.db, log |-> log2]
      ELSE
    Bind(update_or_create_stay(ug.db, stay.data, ug.guest_id),
    LAMBDA us : [exc |-> us.exc, db |-> us.db, log |-> log2]))))

\* the for loop of lines 94-109, from event i on; items collects what each
\* event's try block raised
RECURSIVE webhook_loop(_, _, _, _, _, _)
webhook_loop(db, events, i, vendor, log, items) ==
    IF i > Len(events)
    THEN [ret |-> "True", exc |-> "none", db |-> db, log |-> log, items |-> items]
    ELSE Bind(webhook_event(db, events[i], vendor),
         LAMBDA r :
           Bind([log |-> log \o r.log, items |-> Append(items, r.exc)],
           LAMBDA acc :
             IF r.exc = "none" \/ except_clause(r.exc) = "continue"
             THEN webhook_loop(r.db, events, i + 1, vendor, acc.log, acc.items)
             ELSE [ret |-> "False", exc |-> "none", db |-> r.db,
                   log |-> acc.log, items |-> acc.items]))

handle_webhook(db, webhook_data, vendor) ==
    webhook_loop(db, webhook_data.Events, 1, vendor, <<>>, <<>>)

\* the try block of lines 121-124
pull_item(db, stay, vendor) ==
    Bind(make_api_call_with_retry(self_name, vendor.get_guest_details[stay.GuestId]),
    LAMBDA guest :
      LET log1 == <<CallLog("get_guest_details", stay.GuestId, guest.calls)>>
      IN  IF guest.exc # "none" THEN [exc |-> guest.exc, db |-> db, log |-> log1]
          ELSE
    Bind(update_or_create_guest(db, guest.data),
    LAMBDA ug :
      IF ug.exc # "none" THEN [exc |-> ug.exc, db |-> ug.db, log |-> log1]
      ELSE
    Bind(update_or_create_stay(ug.db, stay, ug.guest_id),
    LAMBDA us : [exc |-> us.exc, db |-> us.db, log |-> log1])))

\* the for loop of lines 119-132, from item i on
RECURSIVE pull_loop(_, _, _, _, _, _)
pull_loop(db, stay_list, i, vendor, log, items) ==
    IF i > Len(stay_list)
    THEN [ret |-> "True", exc |-> "none", db |-> db, log |-> log, items |-> items]
    ELSE Bind(pull_item(db, stay_list[i], vendor),
         LAMBDA r :
           Bind([log |-> log \o r.log, items |-> Append(items, r.exc)],
           LAMBDA acc :
             IF r.exc = "none" \/ except_clause(r.exc) = "continue"
             THEN pull_loop(r.db, stay_list, i + 1, vendor, acc.log, acc.items)
             ELSE [ret |-> "False", exc |-> "none", db |-> r.db,
                   log |-> acc.log, items |-> acc.items]))

\* lines 116-117: the reservation list, fetched outside any try block
pull_fetch(vendor) ==
    make_api_call_with_retry(self_name, vendor.get_reservations_for_given_checkin_date)

\* today is the date of datetime.now(); ret is "raised" when the call ends by
\* an exception, which exc names
update_tomorrows_stays(db, vendor, today) ==
    Bind(pull_fetch(vendor),
    LAMBDA fetched :
      LET log1 == <<CallLog("get_reservations_for_given_checkin_date", today + 1,
                            fetched.calls)>>
      IN  IF fetched.exc # "none"
          THEN [ret |-> "raised", exc |-> fetched.exc, db |-> db, log |-> log1,
                items |-> <<>>]
          ELSE pull_loop(db, fetched.data, 1, vendor, log1, <<>>))

\* getattr on a record of the model: AttributeError when the field is missing
HasAttr(obj, name) == name \in DOMAIN obj

\* lines 134-137. The argument of make_api_call_with_retry, stay.ReservationId,
\* is evaluated before the call is made; a row of the Stay table has no such
\* attribute (its column is pms_reservation_id).
stay_has_breakfast(stay, vendor) ==
    IF ~HasAttr(stay, "ReservationId")
    THEN [ret |-> "raised", exc |-> "AttributeError", log |-> <<>>, items |-> <<>>]
    ELSE
    Bind(make_api_call_with_retry(self_name,
             vendor.get_reservation_details[stay.ReservationId]),
    LAMBDA stay_to_check :
      LET log1 == <<CallLog("get_reservation_details", stay.ReservationId,
                            stay_to_check.calls)>>
      IN  IF stay_to_check.exc # "none"
          THEN [ret |-> "raised", exc |-> stay_to_check.exc, log |-> log1, items |-> <<>>]
          ELSE IF ~HasAttr(stay_to_check.data, "BreakfastIncluded")
          THEN [ret |-> "raised", exc |-> "AttributeError", log |-> log1, items |-> <<>>]
          ELSE [ret |-> stay_to_check.data.BreakfastIncluded, exc |-> "none",
                log |-> log1, items |-> <<>>])

\* ---------------------------------------------------------------- inputs
SeqsUpTo(S, n) == UNION {[1..k -> S] : k \in 0..n}

HotelRows == {[id |-> 1, pms_hotel_id |-> "h1"], [id |-> 2, pms_hotel_id |-> "h2"]}
ReservationIds == {"r1", "r2"}
VendorGuestIds == {"g1", "g2"}

\* the vendor's stay of a reservation, at a hotel of the Hotel table
KnownStay(rid) ==
    IF rid = "r1"
    THEN [ReservationId |-> "r1", HotelId |-> "h1", GuestId |-> "g1",
          Status |-> "confirmed", CheckInDate |-> "d1", CheckOutDate |-> "d2"]
    ELSE [ReservationId |-> rid, HotelId |-> "h2", GuestId |-> "g2",
          Status |-> "cancelled", CheckInDate |-> "d2", CheckOutDate |-> "d3"]

\* the same reservation with every other field changed
ChangedStay(rid) ==
    IF rid = "r1"
    THEN [ReservationId |-> "r1", HotelId |-> "h2", GuestId |-> "g2",
          Status |-> "cancelled", CheckInDate |-> "d2", CheckOutDate |-> "d3"]
    ELSE [ReservationId |-> rid, HotelId |-> "h1", GuestId |-> "g1",
          Status |-> "confirmed", CheckInDate |-> "d1", CheckOutDate |-> "d2"]

\* the same reservation at a hotel that is not in the Hotel table
UnknownHotelStay(rid) == [KnownStay(rid) EXCEPT !.HotelId = "hX"]

VendorStays ==
    {KnownStay(r) : r \in ReservationIds} \cup {ChangedStay(r) : r \in ReservationIds}
        \cup {UnknownHotelStay(r) : r \in ReservationIds}

VendorGuests ==
    [Name : {"", "Ann", "Bob"},
     Phone : {PyNone, "", "Not available", "+31611", "+31622"},
     Country : {PyNone, "NL"}]

VendorGuestOf(gid) ==
    IF gid = "g1" THEN [Name |-> "Ann", Phone |-> "+31611", Country |-> "NL"]
    ELSE [Name |-> "Bob", Phone |-> "+31622", Country |-> "XX"]

NoPhoneGuestOf(gid) == [VendorGuestOf(gid) EXCEPT !.Phone = "Not available"]

\* country codes: two letters in every spelling, the empty string and None
CountryCodes == DOMAIN LowerTable \cup {LowerTable[c] : c \in DOMAIN LowerTable}
Countries == CountryCodes \cup {"", PyNone}

\* remote calls
Ok(resp) == [fails |-> 0, raises |-> "none", resp |-> resp]
Exhausts == [fails |-> RetryLimit, raises |-> "none", resp |-> EmptyPayload]

PmsNames == {"Mews", "mews", "opera"}
RetryResponses ==
    {Json(KnownStay("r1")), Json(VendorGuestOf("g1")), EmptyPayload, GarbagePayload,
     BadKeysPayload}
RetryRequests ==
    [fails : 0..MaxFails, raises : {"none"}, resp : RetryResponses]
        \cup [fails : 0..MaxFails, raises : {"RuntimeError"}, resp : {EmptyPayload}]

ReservationOptions(rid) ==
    {Ok(Json(KnownStay(rid))), Ok(Json(UnknownHotelStay(rid))), Exhausts, Ok(BadKeysPayload)}
GuestOptions(gid) ==
    {Ok(Json(VendorGuestOf(gid))), Ok(Json(NoPhoneGuestOf(gid))), Exhausts,
     Ok(BadKeysPayload)}
BatchStays ==
    {KnownStay(r) : r \in ReservationIds} \cup {UnknownHotelStay(r) : r \in ReservationIds}
ListOptions ==
    {Exhausts, Ok(BadKeysPayload)} \cup {Ok(Json(l)) : l \in SeqsUpTo(BatchStays, MaxEvents)}

\* the vendor's stay with the breakfast field: true, false or null
BreakfastValues == {"True", "False", PyNone}
BreakfastStay(rid, b) == KnownStay(rid) @@ [BreakfastIncluded |-> b]
BreakfastOptions(rid) ==
    {Ok(Json(BreakfastStay(rid, b))) : b \in BreakfastValues}
        \cup {[fails |-> k, raises |-> "none", resp |-> Json(BreakfastStay(rid, "True"))] :
                 k \in {1, RetryLimit - 1, RetryLimit}}
        \cup {Ok(Json(KnownStay(rid))), Ok(EmptyPayload), Exhausts}

\* stay_has_breakfast is given a stay as the vendor sends it or, as its
\* signature says, a row of the Stay table
BreakfastInputs(ss) ==
    UNION {{[stay |-> KnownStay(rid),
             vendor |-> [get_reservation_details |->
                             [r \in ReservationIds |-> IF r = rid THEN o ELSE Exhausts],
                         get_guest_details |-> [g \in VendorGuestIds |-> Exhausts],
                         get_reservations_for_given_checkin_date |-> Exhausts]] :
               o \in BreakfastOptions(rid)} : rid \in ReservationIds}
    \cup {[stay |-> ss[i],
            vendor |-> [get_reservation_details |->
                            [r \in ReservationIds |->
                                Ok(Json(BreakfastStay(r, "True")))],
                        get_guest_details |-> [g \in VendorGuestIds |-> Exhausts],
                        get_reservations_for_given_checkin_date |-> Exhausts]] :
              i \in DOMAIN ss}

Events == {[Value |-> [ReservationId |-> r]] : r \in ReservationIds}
WebhookPayloads == {[Events |-> es] : es \in SeqsUpTo(Events, MaxEvents)}

IsStayAnswer(request) == request.fails = 0 /\ request.resp.kind = "json"

\* The vendors a delivery or a pull is run against. What a remote call that
\* is never made would answer is fixed to Exhausts, so that two vendors differ
\* only in calls that can be made.
ReservationChoices(rids) ==
    {f \in [ReservationIds -> UNION {ReservationOptions(r) : r \in ReservationIds}] :
        \A r \in ReservationIds :
            f[r] \in (IF r \in rids THEN ReservationOptions(r) ELSE {Exhausts})}
GuestChoices(gids) ==
    {f \in [VendorGuestIds -> UNION {GuestOptions(g) : g \in VendorGuestIds}] :
        \A g \in VendorGuestIds :
            f[g] \in (IF g \in gids THEN GuestOptions(g) ELSE {Exhausts})}

EventRids(webhook_data) ==
    {webhook_data.Events[i].Value.ReservationId : i \in DOMAIN webhook_data.Events}
AnsweredGids(rf, rids) ==
    {rf[r].resp.obj.GuestId : r \in {x \in rids : IsStayAnswer(rf[x])}}
ListedGids(l) ==
    IF IsStayAnswer(l) THEN {l.resp.obj[i].GuestId : i \in DOMAIN l.resp.obj} ELSE {}

WebhookInputs ==
    UNION {UNION {{[webhook_data |-> w,
                    vendor |-> [get_reservation_details |-> rf,
                                get_guest_details |-> gf,
                                get_reservations_for_given_checkin_date |-> Exhausts]] :
                      gf \in GuestChoices(AnsweredGids(rf, EventRids(w)))} :
                  rf \in ReservationChoices(EventRids(w))} :
           w \in WebhookPayloads}

PullInputs ==
    UNION {{[get_reservation_details |-> [r \in ReservationIds |-> Exhausts],
             get_guest_details |-> gf,
             get_reservations_for_given_checkin_date |-> l] :
               gf \in GuestChoices(ListedGids(l))} :
           l \in ListOptions}

\* ------------------------------------------------------------ state machine
\* `last` records a call: the operation, its arguments, what it returned (ret)
\* or raised (exc), the remote calls it made (log), what each item of a batch
\* raised (items), the time of the call, whether the call before it was the
\* same operation on the same arguments (repeat), and for
\* update_or_create_guest the id and name of the row it found (before), for
\* update_or_create_stay the id and guest_id of the row it found.
NoRow == [id |-> NoId, name |-> [text |-> "", uuid |-> 0]]
NoCall == [op |-> "none", arg |-> <<>>, ret |-> <<>>, exc |-> "none", log |-> <<>>,
           items |-> <<>>, time |-> 0, repeat |-> FALSE, before |-> NoRow]

Call(op, arg, r, ret, before) ==
    [op |-> op, arg |-> arg, ret |-> ret, exc |-> r.exc, log |-> r.log, items |-> r.items,
     time |-> clock, repeat |-> (last.op = op /\ last.arg = arg), before |-> before]

NoLog == [log |-> <<>>, items |-> <<>>]

\* the id and name of the Guest row with this phone, NoRow if there is none
GuestBefore(gs, phone) ==
    IF guest_filter(gs, phone) = {} THEN NoRow
    ELSE LET i == CHOOSE k \in guest_filter(gs, phone) : TRUE
         IN  [id |-> gs[i].id, name |-> gs[i].name]

\* Reconciliations run by concurrent workers (two webhook deliveries, say),
\* each record-store call being one step
Workers == {1, 2}
Idle == [pc |-> "idle", op |-> "none", arg |-> <<>>, hotel_id |-> NoId,
         ret |-> NoId, exc |-> "none"]
NoInflight == [w \in Workers |-> Idle]

\* the id and guest_id of the Stay row of this reservation, if there is one
StayBefore(ss, rid) ==
    IF stay_filter(ss, rid) = {} THEN [id |-> NoId, guest_id |-> NoId]
    ELSE LET i == CHOOSE k \in stay_filter(ss, rid) : TRUE
         IN  [id |-> ss[i].id, guest_id |-> ss[i].guest_id]

Init ==
    /\ hotels = HotelRows
    /\ guests = <<>>
    /\ stays = <<>>
    /\ uuid_count = 0
    /\ clock = 1
    /\ now = 1
    /\ last = NoCall
    /\ inflight = NoInflight

\* a Guest row written by an earlier run of the program
SeedGuest ==
    [id |-> 1, name |-> [text |-> "Zoe", uuid |-> 0], phone |-> "+31600",
     language |-> "None", created_at |-> 1, updated_at |-> NoTime]

InitStay ==
    /\ hotels = HotelRows
    /\ guests = <<SeedGuest>>
    /\ stays = <<>>
    /\ uuid_count = 0
    /\ clock = 1
    /\ now = 1
    /\ last = NoCall
    /\ inflight = NoInflight

Commit(db) ==
    /\ db.uuid_count <= MaxUuid
    /\ guests' = db.guests
    /\ stays' = db.stays
    /\ uuid_count' = db.uuid_count

\* the operations, each on an argument drawn from a set of inputs
UpsertGuestOf(inputs) ==
    \E guest \in inputs :
        \E r \in {update_or_create_guest(DB, guest)} :
            /\ Commit(r.db)
            /\ last' = Call("update_or_create_guest", guest, r @@ NoLog, r.guest_id,
                            GuestBefore(guests, guest.Phone))
            /\ UNCHANGED <<inflight, hotels, clock, now>>

UpsertGuest == UpsertGuestOf(VendorGuests)

UpsertStayOf(inputs) ==
    \E stay \in inputs, guest_id \in {NoId} \cup DOMAIN guests :
        \E r \in {update_or_create_stay(DB, stay, guest_id)} :
            /\ Commit(r.db)
            /\ last' = Call("update_or_create_stay", [stay |-> stay, guest_id |-> guest_id],
                            r @@ NoLog, <<>>, StayBefore(stays, stay.ReservationId))
            /\ UNCHANGED <<inflight, hotels, clock, now>>

UpsertStay == UpsertStayOf(VendorStays)

MakeApiCall ==
    \E pms_name \in PmsNames, request \in RetryRequests :
        \E r \in {make_api_call_with_retry(pms_name, request)} :
            /\ last' = Call("make_api_call_with_retry",
                            [pms_name |-> pms_name, request |-> request],
                            [exc |-> r.exc, log |-> <<CallLog("request", <<>>, r.calls)>>,
                             items |-> <<>>],
                            r.data, NoRow)
            /\ UNCHANGED <<inflight, hotels, guests, stays, uuid_count, clock, now>>

GetGuestLanguage ==
    \E country \in Countries :
        \E r \in {get_guest_language(country)} :
            /\ last' = Call("get_guest_language", country, [exc |-> "none"] @@ NoLog,
                            r, NoRow)
            /\ UNCHANGED <<inflight, hotels, guests, stays, uuid_count, clock, now>>

HandleWebhookOf(inputs) ==
    \E in \in inputs :
        \E r \in {handle_webhook(DB, in.webhook_data, in.vendor)} :
            /\ Commit(r.db)
            /\ last' = Call("handle_webhook", in, r, r.ret, NoRow)
            /\ UNCHANGED <<inflight, hotels, clock, now>>

HandleWebhook == HandleWebhookOf(WebhookInputs)

UpdateTomorrowsStaysOf(inputs) ==
    \E vendor \in inputs :
        \E r \in {update_tomorrows_stays(DB, vendor, clock)} :
            /\ Commit(r.db)
            /\ last' = Call("update_tomorrows_stays", [vendor |-> vendor], r, r.ret, NoRow)
            /\ UNCHANGED <<inflight, hotels, clock, now>>

UpdateTomorrowsStays == UpdateTomorrowsStaysOf(PullInputs)

StayHasBreakfastOf(inputs) ==
    \E in \in inputs :
        \E r \in {stay_has_breakfast(in.stay, in.vendor)} :
            /\ last' = Call("stay_has_breakfast", in, r, r.ret, NoRow)
            /\ UNCHANGED <<inflight, hotels, guests, stays, uuid_count, clock, now>>

StayHasBreakfast == StayHasBreakfastOf(BreakfastInputs(stays))

Tick ==
    /\ clock < MaxClock
    /\ clock' = clock + 1
    /\ UNCHANGED <<inflight, hotels, guests, stays, uuid_count, now, last>>

Next ==
    \/ UpsertGuest
    \/ UpsertStay
    \/ MakeApiCall
    \/ GetGuestLanguage
    \/ HandleWebhook
    \/ UpdateTomorrowsStays
    \/ StayHasBreakfast
    \/ Tick

Spec == Init /\ [][Next]_vars

NextGuest == UpsertGuest
SpecGuest == Init /\ [][NextGuest]_vars

NextStay == UpsertStay \/ Tick
SpecStay == InitStay /\ [][NextStay]_vars

NextRetry == MakeApiCall
SpecRetry == Init /\ [][NextRetry]_vars

NextLanguage == GetGuestLanguage
SpecLanguage == Init /\ [][NextLanguage]_vars

\* One delivery of a webhook, or one scheduled pull, against a database that
\* earlier deliveries have filled.
EmptyDb == [guests |-> <<>>, stays |-> <<>>, uuid_count |-> 0]
AllKnownVendor ==
    [get_reservation_details |-> [r \in ReservationIds |-> Ok(Json(KnownStay(r)))],
     get_guest_details |-> [g \in VendorGuestIds |-> Ok(Json(VendorGuestOf(g)))],
     get_reservations_for_given_checkin_date |-> Exhausts]
EarlierDeliveries ==
    {[Events |-> <<>>],
     [Events |-> <<[Value |-> [ReservationId |-> "r1"]]>>],
     [Events |-> <<[Value |-> [ReservationId |-> "r2"]], [Value |-> [ReservationId |-> "r1"]]>>]}

InitBatch ==
    /\ hotels = HotelRows
    /\ uuid_count = 0
    /\ clock = 1
    /\ now = 1
    /\ last = NoCall
    /\ inflight = NoInflight
    /\ \E w \in EarlierDeliveries :
          \E r \in {handle_webhook(EmptyDb, w, AllKnownVendor)} :
              guests = r.db.guests /\ stays = r.db.stays

BatchWebhook == last.op = "none" /\ HandleWebhook
BatchPull == last.op = "none" /\ UpdateTomorrowsStays
NextBatch == BatchWebhook \/ BatchPull
SpecBatch == InitBatch /\ [][NextBatch]_vars

\* ------------------------------------------------- concurrent reconciliation
\* hotel.models: whether the store refuses a second Guest row of a phone and
\* a second Stay row of a reservation id. The design describes a store of
\* plain create and update calls and leaves the one-row-per-key invariants to
\* the reconciliation.
GuestPhoneUnique == FALSE
StayReservationUnique == FALSE

ConcGuests ==
    {VendorGuestOf("g1"), [Name |-> "Bob", Phone |-> "+31611", Country |-> PyNone]}
ConcStays == {KnownStay("r1"), ChangedStay("r1")}

At(w, op, pc) == inflight[w].op = op /\ inflight[w].pc = pc
Goto(w, pc) == inflight' = [inflight EXCEPT ![w].pc = pc]
Finish(w, ret, exc) ==
    inflight' = [inflight EXCEPT ![w].pc = "return", ![w].ret = ret, ![w].exc = exc]

\* lines 149-152: the call, the language and the test of the phone
GuestCall(w) ==
    /\ inflight[w].pc = "idle"
    /\ \E guest \in ConcGuests :
          inflight' = [inflight EXCEPT ![w] =
              [Idle EXCEPT !.op = "update_or_create_guest", !.arg = guest,
                           !.pc = IF no_usable_phone(guest.Phone) THEN "return"
                                  ELSE "exists"]]
    /\ UNCHANGED <<hotels, guests, stays, uuid_count, clock, now, last>>

\* lines 154-155: guest_from_db.exists()
GuestExists(w) ==
    /\ At(w, "update_or_create_guest", "exists")
    /\ Goto(w, IF guest_exists(guests, inflight[w].arg.Phone) THEN "update" ELSE "save")
    /\ UNCHANGED <<hotels, guests, stays, uuid_count, clock, now, last>>

\* lines 156-157: guest_from_db.update(...)
GuestUpdate(w) ==
    /\ At(w, "update_or_create_guest", "update")
    /\ \E r \in {guest_update_branch(DB, inflight[w].arg,
                                      get_guest_language(inflight[w].arg.Country))} :
          Commit(r.db)
    /\ Goto(w, "get")
    /\ UNCHANGED <<hotels, clock, now, last>>

\* lines 160-161: new_guest.save()
GuestSave(w) ==
    /\ At(w, "update_or_create_guest", "save")
    /\ IF GuestPhoneUnique /\ guest_exists(guests, inflight[w].arg.Phone)
       THEN /\ Finish(w, NoId, "IntegrityError")
            /\ UNCHANGED <<guests, stays, uuid_count>>
       ELSE /\ \E r \in {guest_create_branch(DB, inflight[w].arg,
                                              get_guest_language(inflight[w].arg.Country))} :
                  Commit(r.db)
            /\ Goto(w, "refetch")
    /\ UNCHANGED <<hotels, clock, now, last>>

\* line 162: Guest.objects.filter(phone=...).exists()
GuestRefetch(w) ==
    /\ At(w, "update_or_create_guest", "refetch")
    /\ IF guest_exists(guests, inflight[w].arg.Phone)
       THEN Goto(w, "get")
       ELSE Finish(w, NoId, "none")
    /\ UNCHANGED <<hotels, guests, stays, uuid_count, clock, now, last>>

\* lines 158 and 162-163: Guest.objects.get(phone=...).id
GuestGet(w) ==
    /\ At(w, "update_or_create_guest", "get")
    /\ \E r \in {guest_get_id(guests, inflight[w].arg.Phone)} : Finish(w, r.id, r.exc)
    /\ UNCHANGED <<hotels, guests, stays, uuid_count, clock, now, last>>

\* line 166: the call
StayCall(w) ==
    /\ inflight[w].pc = "idle"
    /\ \E stay \in ConcStays, guest_id \in {NoId} :
          inflight' = [inflight EXCEPT ![w] =
              [Idle EXCEPT !.op = "update_or_create_stay",
                           !.arg = [stay |-> stay, guest_id |-> guest_id],
                           !.pc = "hotel"]]
    /\ UNCHANGED <<hotels, guests, stays, uuid_count, clock, now, last>>

\* lines 167-170: the Hotel row and the test of its id
StayHotel(w) ==
    /\ At(w, "update_or_create_stay", "hotel")
    /\ \E got \in {hotel_get_id(hotels, inflight[w].arg.stay.HotelId)} :
          IF got.exc # "none" THEN Finish(w, NoId, got.exc)
          ELSE IF got.id = NoId THEN Finish(w, NoId, "IncorrectHotelIdException")
          ELSE inflight' = [inflight EXCEPT ![w].pc = "exists", ![w].hotel_id = got.id]
    /\ UNCHANGED <<hotels, guests, stays, uuid_count, clock, now, last>>

\* lines 172-173: stay_from_db.exists()
StayExists(w) ==
    /\ At(w, "update_or_create_stay", "exists")
    /\ Goto(w, IF stay_exists(stays, inflight[w].arg.stay.ReservationId)
               THEN "update" ELSE "save")
    /\ UNCHANGED <<hotels, guests, stays, uuid_count, clock, now, last>>

\* lines 174-175: stay_from_db.update(...)
StayUpdate(w) ==
    /\ At(w, "update_or_create_stay", "update")
    /\ stays' = stay_update_branch(stays, inflight[w].hotel_id, inflight[w].arg.stay,
                                   inflight[w].arg.guest_id)
    /\ Finish(w, NoId, "none")
    /\ UNCHANGED <<hotels, guests, uuid_count, clock, now, last>>

\* lines 177-179: new_stay.save()
StaySave(w) ==
    /\ At(w, "update_or_create_stay", "save")
    /\ IF StayReservationUnique /\ stay_exists(stays, inflight[w].arg.stay.ReservationId)
       THEN /\ Finish(w, NoId, "IntegrityError")
            /\ UNCHANGED stays
       ELSE /\ stays' = stay_create_branch(stays, inflight[w].hotel_id,
                                           inflight[w].arg.stay, inflight[w].arg.guest_id)
            /\ Finish(w, NoId, "none")
    /\ UNCHANGED <<hotels, guests, uuid_count, clock, now, last>>

\* the call returns or raises
Return(w) ==
    /\ inflight[w].pc = "return"
    /\ last' = Call(inflight[w].op, inflight[w].arg,
                    [exc |-> inflight[w].exc] @@ NoLog, inflight[w].ret, NoRow)
    /\ inflight' = [inflight EXCEPT ![w] = Idle]
    /\ UNCHANGED <<hotels, guests, stays, uuid_count, clock, now>>

NextConcurrent ==
    \E w \in Workers :
        \/ GuestCall(w)
        \/ GuestExists(w)
        \/ GuestUpdate(w)
        \/ GuestSave(w)
        \/ GuestRefetch(w)
        \/ GuestGet(w)
        \/ StayCall(w)
        \/ StayHotel(w)
        \/ StayExists(w)
        \/ StayUpdate(w)
        \/ StaySave(w)
        \/ Return(w)
SpecConcurrent == Init /\ [][NextConcurrent]_vars

\* Every operation that touches the tables, in any order, on a few inputs of
\* each: guests with and without a phone, stays at known and unknown hotels,
\* a vendor that answers every call and one that does not.
FrameGuests ==
    {VendorGuestOf("g1"), NoPhoneGuestOf("g2"),
     [Name |-> "Bob", Phone |-> "+31611", Country |-> PyNone]}
FrameStays == {KnownStay("r1"), ChangedStay("r1"), UnknownHotelStay("r2")}
FlakyVendor ==
    [AllKnownVendor EXCEPT !.get_reservation_details["r1"] = Ok(BadKeysPayload),
                           !.get_guest_details["g1"] = Exhausts]
FrameWebhookInputs ==
    {[webhook_data |-> w, vendor |-> v] :
        w \in {[Events |-> <<[Value |-> [ReservationId |-> "r1"]],
                             [Value |-> [ReservationId |-> "r2"]]>>]},
        v \in {AllKnownVendor, FlakyVendor}}
FramePullInputs ==
    {[AllKnownVendor EXCEPT !.get_reservations_for_given_checkin_date =
                                Ok(Json(<<KnownStay("r2"), UnknownHotelStay("r1")>>))],
     [FlakyVendor EXCEPT !.get_reservations_for_given_checkin_date =
                             Ok(Json(<<KnownStay("r2"), KnownStay("r1")>>))],
     AllKnownVendor}

FrameBreakfastInputs(ss) ==
    {in \in BreakfastInputs(ss) :
        HasAttr(in.stay, "ReservationId")
            => /\ in.stay.ReservationId = "r1"
               /\ in.vendor.get_reservation_details["r1"]
                     \in {Ok(Json(BreakfastStay("r1", "True"))), Exhausts}}

FrameUpsertGuest == UpsertGuestOf(FrameGuests)
FrameUpsertStay == UpsertStayOf(FrameStays)
FrameWebhook == HandleWebhookOf(FrameWebhookInputs)
FramePull == UpdateTomorrowsStaysOf(FramePullInputs)
FrameBreakfast == StayHasBreakfastOf(FrameBreakfastInputs(stays))
NextFrame ==
    \/ FrameUpsertGuest
    \/ FrameUpsertStay
    \/ FrameWebhook
    \/ FramePull
    \/ FrameBreakfast
SpecFrame == Init /\ [][NextFrame]_vars

\* breakfast queries against a database that earlier deliveries have filled
NextBreakfast == StayHasBreakfast
SpecBreakfast == InitBatch /\ [][NextBreakfast]_vars

\* ------------------------------------------------------------ properties
StayRows(ss, rid) == {ss[i] : i \in stay_filter(ss, rid)}
GuestRows(gs, phone) == {gs[i] : i \in guest_filter(gs, phone)}

NonTimestamp(row) ==
    [hotel_id |-> row.hotel_id, pms_reservation_id |-> row.pms_reservation_id,
     pms_guest_id |-> row.pms_guest_id, guest_id |-> row.guest_id, status |-> row.status,
     checkin |-> row.checkin, checkout |-> row.checkout]

KnownHotelIds == {h.pms_hotel_id : h \in hotels}
HotelIdOf(pms_hotel_id) == (CHOOSE h \in hotels : h.pms_hotel_id = pms_hotel_id).id

\* the non-timestamp fields a reconciliation of `stay` with `guest_id` stores
Reconciled(stay, guest_id) ==
    [hotel_id |-> HotelIdOf(stay.HotelId), pms_reservation_id |-> stay.ReservationId,
     pms_guest_id |-> stay.GuestId, guest_id |-> guest_id, status |-> stay.Status,
     checkin |-> stay.CheckInDate, checkout |-> stay.CheckOutDate]

\* the timestamp the last reconciliation of a row stored
Written(row) == IF row.updated_at # NoTime THEN row.updated_at ELSE row.created_at

Answered(request) ==
    request.fails < RetryLimit /\ request.raises = "none" /\ request.resp.kind = "json"

\* the case of C1: two events, every remote call answering, one stay at a
\* known hotel and one at an unknown hotel, in either order
C1_Case(l) ==
    /\ l.op = "handle_webhook"
    /\ Len(l.arg.webhook_data.Events) = 2
    /\ LET v == l.arg.vendor
           rid(k) == l.arg.webhook_data.Events[k].Value.ReservationId
           answer(k) == v.get_reservation_details[rid(k)]
       IN  /\ \A k \in 1..2 : /\ Answered(answer(k))
                              /\ Answered(v.get_guest_details[answer(k).resp.obj.GuestId])
           /\ \E k \in 1..2 : /\ answer(k).resp.obj.HotelId \in KnownHotelIds
                              /\ answer(3 - k).resp.obj.HotelId \notin KnownHotelIds

C1_Outcome(l, before, after) ==
    LET v == l.arg.vendor
        rid(k) == l.arg.webhook_data.Events[k].Value.ReservationId
        answer(k) == v.get_reservation_details[rid(k)].resp.obj
    IN  /\ l.ret = "True"
        /\ \A k \in 1..2 :
              IF answer(k).HotelId \in KnownHotelIds
              THEN /\ Cardinality(StayRows(after, rid(k))) = 1
                   /\ \A row \in StayRows(after, rid(k)) :
                         /\ row.hotel_id = HotelIdOf(answer(k).HotelId)
                         /\ row.status = answer(k).Status
                         /\ row.pms_guest_id = answer(k).GuestId
              ELSE StayRows(after, rid(k)) = StayRows(before, rid(k))

\* C1 -- a webhook of two events, one whose stay is at a known hotel and one
\* whose stay is at an unknown hotel, in either order, every remote call
\* answering: handle_webhook returns True, the known-hotel Stay is created or
\* updated and no other Stay row is.
C1_UnknownHotelSkipped ==
    [][C1_Case(last') => C1_Outcome(last', stays, stays')]_vars

C2_Case(l) ==
    l.op = "update_or_create_stay" /\ l.arg.stay.HotelId \notin KnownHotelIds

\* C2 -- update_or_create_stay on a stay whose hotel id is in no Hotel row
\* raises IncorrectHotelIdException and leaves the Stay table unchanged.
C2_UnknownHotelRaisesIncorrectHotelId ==
    [][C2_Case(last') =>
          last'.exc = "IncorrectHotelIdException" /\ stays' = stays]_vars

C3_AtMostOneStayPerReservation ==
    \A i, j \in DOMAIN stays :
        stays[i].pms_reservation_id = stays[j].pms_reservation_id => i = j

C3_SecondReconciliation ==
    (/\ last'.op = "update_or_create_stay" /\ last'.exc = "none"
     /\ last'.repeat /\ last.exc = "none")
    => LET rid == last'.arg.stay.ReservationId
       IN  /\ Cardinality(stay_filter(stays', rid)) = 1
           /\ {NonTimestamp(row) : row \in StayRows(stays', rid)}
                 = {NonTimestamp(row) : row \in StayRows(stays, rid)}
           /\ {NonTimestamp(row) : row \in StayRows(stays', rid)}
                 = {Reconciled(last'.arg.stay, last'.arg.guest_id)}

\* C3 -- there is at most one Stay row per vendor reservation id, and a
\* second update_or_create_stay with the arguments of the successful call
\* before it leaves exactly one row of that reservation, its non-timestamp
\* fields as the first call stored them.
C3_StayUpsertIdempotent ==
    []C3_AtMostOneStayPerReservation /\ [][C3_SecondReconciliation]_vars

C3_Witness ==
    /\ last.op = "update_or_create_stay" /\ last.exc = "none" /\ last.repeat
    /\ Len(stays) = 2
    /\ \E row \in StayRows(stays, last.arg.stay.ReservationId) :
          /\ row.updated_at # NoTime
          /\ NonTimestamp(row) = Reconciled(last.arg.stay, last.arg.guest_id)
          /\ row.guest_id # NoId

\* C4 -- when update_or_create_stay is called a second time with the same
\* arguments at a later time, the timestamp it stores in the row is strictly
\* later than the one the first call stored.
C4_TimestampAdvances ==
    [][(/\ last'.op = "update_or_create_stay" /\ last'.exc = "none"
        /\ last'.repeat /\ last.exc = "none"
        /\ last'.time > last.time)
       => \A new \in StayRows(stays', last'.arg.stay.ReservationId) :
             \A old \in StayRows(stays, last'.arg.stay.ReservationId) :
                 Written(new) > Written(old)]_vars

UsablePhone(phone) == phone \notin {PyNone, "", "Not available"}

C5_AtMostOneGuestPerPhone ==
    /\ \A i, j \in DOMAIN guests : guests[i].phone = guests[j].phone => i = j
    /\ \A i \in DOMAIN guests : UsablePhone(guests[i].phone)

C5_LatestNameStored ==
    (/\ last.op = "update_or_create_guest" /\ UsablePhone(last.arg.Phone)
     /\ last.arg.Name \notin {PyNone, ""})
    => /\ last.exc = "none"
       /\ Cardinality(guest_filter(guests, last.arg.Phone)) = 1
       /\ \A row \in GuestRows(guests, last.arg.Phone) :
             /\ row.name = [text |-> last.arg.Name, uuid |-> 0]
             /\ row.id = last.ret
       /\ last.before.id # NoId => last.ret = last.before.id

C5_SecondReconciliation ==
    (/\ last'.op = "update_or_create_guest" /\ last.op = "update_or_create_guest"
     /\ UsablePhone(last'.arg.Phone) /\ last'.arg.Phone = last.arg.Phone
     /\ last'.arg.Name \notin {PyNone, ""} /\ last.arg.Name \notin {PyNone, ""}
     /\ last'.arg.Name # last.arg.Name)
    => /\ last'.ret = last.ret /\ last'.ret # NoId
       /\ \A row \in GuestRows(guests', last'.arg.Phone) :
             row.name.text = last'.arg.Name /\ row.name.text # last.arg.Name

\* C5 -- there is at most one Guest row per phone number, no row has an
\* unusable phone, and when two vendor guests with the same usable phone and
\* different non-empty names are reconciled one after the other, the one row
\* of that phone has the later name and both calls returned its id.
C5_PhoneKeyedDedup ==
    [](C5_AtMostOneGuestPerPhone /\ C5_LatestNameStored)
        /\ [][C5_SecondReconciliation]_vars

C5_Witness ==
    /\ last.op = "update_or_create_guest" /\ last.exc = "none"
    /\ last.arg.Name = "Bob" /\ last.before.name.text = "Ann"
    /\ last.ret = last.before.id
    /\ Len(guests) = 2
    /\ \E row \in GuestRows(guests, last.arg.Phone) :
          row.name.text = "Bob" /\ row.updated_at # NoTime

\* C6 -- update_or_create_guest on a guest whose phone is None, empty or
\* 'Not available' returns None and leaves the Guest table as it was,
\* whatever the name and the country.
C6_NoPhoneNotPersisted ==
    [][(last'.op = "update_or_create_guest" /\ ~UsablePhone(last'.arg.Phone))
       => /\ last'.ret = NoId /\ last'.exc = "none"
          /\ guests' = guests /\ uuid_count' = uuid_count]_vars

C6_Witness ==
    /\ last.op = "update_or_create_guest" /\ last.arg.Phone = "Not available"
    /\ last.arg.Name = "Ann" /\ last.arg.Country = "NL"
    /\ last.ret = NoId
    /\ Len(guests) = 1

\* C7 -- when every attempt of the remote call raises APIError,
\* make_api_call_with_retry invokes it exactly 10 times, raises APIError,
\* returns nothing and writes no table.
C7_RetryExhaustion ==
    [][(last'.op = "make_api_call_with_retry" /\ last'.arg.request.fails >= 10)
       => /\ last'.log[1].calls = 10
          /\ last'.exc = "APIError"
          /\ last'.ret = NoData
          /\ guests' = guests /\ stays' = stays]_vars

C7_Witness ==
    /\ last.op = "make_api_call_with_retry"
    /\ last.arg.request.fails > 10
    /\ last.log[1].calls = 10
    /\ last.exc = "APIError"

\* C8 -- for every k in 1..10, when the remote call raises APIError on its
\* first k-1 invocations and answers on the k-th, a registered adapter's
\* make_api_call_with_retry returns the cleaned answer after exactly k
\* invocations.
C8_RetrySuccess ==
    \A k \in 1..10 :
        (/\ last.op = "make_api_call_with_retry"
         /\ last.arg.pms_name \in {"Mews", "mews"}
         /\ last.arg.request.fails = k - 1
         /\ last.arg.request.raises = "none"
         /\ last.arg.request.resp.kind = "json")
        => /\ last.exc = "none"
           /\ last.ret = last.arg.request.resp.obj
           /\ last.log[1].calls = k

C8_Witness ==
    /\ last.op = "make_api_call_with_retry"
    /\ last.arg.request.fails = 9
    /\ last.arg.request.resp.kind = "json"
    /\ last.exc = "none"
    /\ last.log[1].calls = 10
    /\ last.ret = KnownStay("r1")

SkippedKinds == {"IncorrectHotelIdException", "ValueError"}

ReservationFetches(log) == {k \in DOMAIN log : log[k].fn = "get_reservation_details"}

\* C9 -- when the try block of an event of handle_webhook raises anything but
\* IncorrectHotelIdException or a ValueError, handle_webhook returns False,
\* that event is the last one it fetched, and the Stay and Guest rows the
\* events before it wrote are still there.
C9_FailFast ==
    [][\A i \in DOMAIN last'.items :
          (last'.op = "handle_webhook" /\ last'.items[i] \notin SkippedKinds \cup {"none"})
          => /\ last'.ret = "False"
             /\ i = Len(last'.items)
             /\ Cardinality(ReservationFetches(last'.log)) = i
             /\ LET events == last'.arg.webhook_data.Events
                    earlier == handle_webhook(DB, [Events |-> SubSeq(events, 1, i - 1)],
                                              last'.arg.vendor)
                IN  /\ earlier.ret = "True"
                    /\ Len(stays') >= Len(earlier.db.stays)
                    /\ \A j \in DOMAIN earlier.db.stays : stays'[j] = earlier.db.stays[j]
                    /\ Len(guests') >= Len(earlier.db.guests)]_vars

C9_Witness ==
    /\ last.op = "handle_webhook"
    /\ last.items = <<"none", "APIError">>
    /\ last.ret = "False"
    /\ Len(last.arg.webhook_data.Events) = 2
    /\ Len(stays) = 1 /\ Len(guests) = 1
    /\ stays[1].pms_reservation_id
          = last.arg.webhook_data.Events[1].Value.ReservationId

\* C10 -- when a remote call of update_tomorrows_stays exhausts its retries,
\* be it the fetch of the reservation list or the fetch of a guest,
\* update_tomorrows_stays returns False.
C10_PullReportsFailure ==
    (/\ last.op = "update_tomorrows_stays"
     /\ \/ last.arg.vendor.get_reservations_for_given_checkin_date.fails >= 10
        \/ \E i \in DOMAIN last.items : last.items[i] = "APIError")
    => last.ret = "False"

\* C11 -- make_api_call_with_retry with a name for which get_pms returns no
\* adapter raises an error without having invoked the remote call, and
\* returns nothing.
C11_NoAdapterFailsBeforeRemoteCall ==
    (/\ last.op = "make_api_call_with_retry"
     /\ get_pms(last.arg.pms_name) = NoPms)
    => /\ last.exc # "none"
       /\ last.log[1].calls = 0
       /\ last.ret = NoData

\* the spellings of each two-letter code: the classes of codes that are equal
\* when letter case is ignored
Spellings ==
    {{"nl", "NL", "Nl", "nL"},
     {"de", "DE", "De", "dE"},
     {"xx", "XX", "Xx", "xX"},
     {"en", "EN", "En", "eN"},
     {"fr", "FR", "Fr", "fR"},
     {"es", "ES", "Es", "eS"},
     {"it", "IT", "It", "iT"},
     {"pt", "PT", "Pt", "pT"},
     {"gb", "GB", "Gb", "gB"},
     {"us", "US", "Us", "uS"},
     {"be", "BE", "Be", "bE"},
     {"dk", "DK", "Dk", "dK"},
     {"se", "SE", "Se", "sE"}}

SameIgnoringCase(a, b) == a = b \/ \E s \in Spellings : a \in s /\ b \in s

\* the entries of the enumeration whose code is `country`, letter case ignored
MatchingChoices(country) ==
    {i \in DOMAIN LanguageChoices : SameIgnoringCase(LanguageChoices[i][1], country)}

\* C13 -- get_guest_language never raises; it returns "None" for an empty or
\* absent country code and for a code that matches no entry of the
\* enumeration, and the label of the entry the code matches when letter case
\* is ignored, so that every spelling of one code gives the same label.
C13_LanguageResolver ==
    last.op = "get_guest_language"
    => /\ last.exc = "none"
       /\ IF Falsy(last.arg) \/ MatchingChoices(last.arg) = {}
          THEN last.ret = "None"
          ELSE \E i \in MatchingChoices(last.arg) : last.ret = LanguageChoices[i][2]

C13_Witness ==
    /\ last.op = "get_guest_language"
    /\ last.arg = "Nl"
    /\ last.ret = "Dutch"

\* the remote call answers at its attempt fails + 1 <= 10 by an error other
\* than APIError, or by a response the cleaning raises on
C18_Case(l) ==
    /\ l.op = "make_api_call_with_retry"
    /\ l.arg.request.fails < RetryLimit
    /\ \/ l.arg.request.raises # "none"
       \/ l.arg.request.resp.kind # "json"
       \/ get_pms(l.arg.pms_name) = NoPms

\* C18 -- when an attempt of make_api_call_with_retry ends by an error other
\* than APIError, raised by the remote call or by the cleaning of its answer,
\* that error reaches the caller, the attempt is the last one, and this is so
\* whatever the number of APIErrors before it.
C18_OnlyApiErrorRetried ==
    C18_Case(last)
    => /\ last.exc \notin {"none", "APIError"}
       /\ last.arg.request.raises # "none" => last.exc = last.arg.request.raises
       /\ last.log[1].calls = last.arg.request.fails + 1
       /\ last.ret = NoData

C18_Witness ==
    /\ last.op = "make_api_call_with_retry"
    /\ last.arg.pms_name = "mews"
    /\ last.arg.request.fails = 9
    /\ last.arg.request.resp.kind = "empty"
    /\ last.exc = "JsonValueError"
    /\ last.log[1].calls = 10

\* the vendor cannot answer the breakfast question: the reservation-detail
\* call raises APIError at every attempt, or its answer has no breakfast value
C12_CannotAnswer(l) ==
    LET request == l.arg.vendor.get_reservation_details[l.arg.stay.ReservationId]
    IN  \/ request.fails >= RetryLimit
        \/ request.resp.kind # "json"
        \/ ~HasAttr(request.resp.obj, "BreakfastIncluded")
        \/ request.resp.obj.BreakfastIncluded = PyNone

\* C12 -- stay_has_breakfast, asked about a stay of the vendor, makes a
\* reservation-detail call at every invocation, and when the vendor cannot
\* answer, as when that call raises APIError at all 10 attempts, it returns
\* None: it neither raises nor returns True or False.
C12_BreakfastUnknown ==
    (last.op = "stay_has_breakfast" /\ HasAttr(last.arg.stay, "ReservationId"))
    => /\ Len(last.log) = 1 /\ last.log[1].calls >= 1
       /\ C12_CannotAnswer(last) => last.exc = "none" /\ last.ret = PyNone

BatchOps == {"handle_webhook", "update_tomorrows_stays"}

\* the items of the batch of a call: the events of a webhook, the reservations
\* of the list a pull fetched
BatchItems(l) ==
    IF l.op = "handle_webhook" THEN l.arg.webhook_data.Events
    ELSE l.arg.vendor.get_reservations_for_given_checkin_date.resp.obj

WithoutItem(s, i) == SubSeq(s, 1, i - 1) \o SubSeq(s, i + 1, Len(s))

\* the tables after the batch of call l, its item i left out, run on db
WithoutItemDb(l, i, db) ==
    IF l.op = "handle_webhook"
    THEN handle_webhook(db, [Events |-> WithoutItem(BatchItems(l), i)], l.arg.vendor).db
    ELSE update_tomorrows_stays(db,
             [l.arg.vendor EXCEPT !.get_reservations_for_given_checkin_date.resp.obj =
                                      WithoutItem(@, i)],
             l.time).db

C14_Skipped(l, i, before, after) ==
    /\ i < Len(BatchItems(l)) => Len(l.items) > i
    /\ (\A j \in DOMAIN l.items : except_clause(l.items[j]) = "continue" \/ l.items[j] = "none")
          => l.ret = "True" /\ Len(l.items) = Len(BatchItems(l))
    /\ after = WithoutItemDb(l, i, before)

\* C14 -- in handle_webhook and update_tomorrows_stays, an item whose try
\* block raises a ValueError is skipped: the item after it is processed, the
\* tables end as the batch without that item leaves them, and the operation
\* returns True with every item processed when every error raised in the
\* batch is one the except clauses skip.
C14_ValueErrorSkipped ==
    [][\A i \in DOMAIN last'.items :
          (last'.op \in BatchOps /\ last'.items[i] \in ValueErrorClasses)
          => C14_Skipped(last', i, DB,
                         [guests |-> guests', stays |-> stays', uuid_count |-> uuid_count'])]_vars

C14_Witness ==
    /\ last.op = "handle_webhook"
    /\ last.items = <<"ValueError", "none">>
    /\ last.ret = "True"
    /\ Len(stays) = 1
    /\ stays[1].pms_reservation_id = last.arg.webhook_data.Events[2].Value.ReservationId
    /\ stays[1].updated_at = NoTime

\* the same case in update_tomorrows_stays
C14_WitnessPull ==
    /\ last.op = "update_tomorrows_stays"
    /\ last.items = <<"ValueError", "none">>
    /\ last.ret = "True"
    /\ Len(stays) = 1
    /\ stays[1].updated_at = NoTime

C15_LastCallStored(l, before, after) ==
    /\ l.exc = "none"
          => {NonTimestamp(row) : row \in StayRows(after, l.arg.stay.ReservationId)}
                = {Reconciled(l.arg.stay, l.arg.guest_id)}
    /\ \A rid \in ReservationIds :
          (rid # l.arg.stay.ReservationId \/ l.exc # "none")
          => StayRows(after, rid) = StayRows(before, rid)

\* C15 -- every successful update_or_create_stay leaves the Stay row of its
\* reservation with the hotel, vendor guest id, guest reference, status,
\* check-in and check-out of that call, a guest reference of None included,
\* and no call changes the row of another reservation: after any sequence of
\* calls the row of a reservation holds the values of the most recent
\* successful call for it.
C15_LastWriteWins ==
    [][last'.op = "update_or_create_stay" => C15_LastCallStored(last', stays, stays')]_vars

C15_Witness ==
    /\ last.op = "update_or_create_stay" /\ last.exc = "none"
    /\ last.arg.guest_id = NoId
    /\ last.before.guest_id # NoId
    /\ \E row \in StayRows(stays, last.arg.stay.ReservationId) :
          /\ row.id = last.before.id
          /\ row.guest_id = NoId
          /\ row.updated_at # NoTime

\* the vendor's stay and guest of item i of the batch of call l
ItemStayRequest(l, i) ==
    IF l.op = "handle_webhook"
    THEN l.arg.vendor.get_reservation_details[BatchItems(l)[i].Value.ReservationId]
    ELSE Ok(Json(BatchItems(l)[i]))
ItemStay(l, i) == ItemStayRequest(l, i).resp.obj
ItemGuestRequest(l, i) == l.arg.vendor.get_guest_details[ItemStay(l, i).GuestId]
ItemGuest(l, i) == ItemGuestRequest(l, i).resp.obj

\* item i was reached, its remote calls answered and its hotel is unknown
C17_UnknownHotelItem(l, i) ==
    /\ l.op \in BatchOps
    /\ i \in DOMAIN l.items
    /\ Answered(ItemStayRequest(l, i))
    /\ Answered(ItemGuestRequest(l, i))
    /\ ItemStay(l, i).HotelId \notin KnownHotelIds

\* the tables after the first k items of the batch of call l, run on db
PrefixDb(l, k, db) ==
    IF l.op = "handle_webhook"
    THEN handle_webhook(db, [Events |-> SubSeq(BatchItems(l), 1, k)], l.arg.vendor).db
    ELSE update_tomorrows_stays(db,
             [l.arg.vendor EXCEPT !.get_reservations_for_given_checkin_date.resp.obj =
                                      SubSeq(@, 1, k)],
             l.time).db

C17_StayGuestExists ==
    \A s \in DOMAIN stays :
        stays[s].guest_id = NoId
            \/ \E g \in DOMAIN guests : guests[g].id = stays[s].guest_id

\* item i left the Stay table as the items before it had left it, and its
\* guest is in the Guest table, created by this item if it was not there
C17_GuestWritten(l, i, before, after) ==
    /\ after.stays = before.stays
    /\ UsablePhone(ItemGuest(l, i).Phone)
          => /\ \E row \in GuestRows(after.guests, ItemGuest(l, i).Phone) :
                    row.name.text = ItemGuest(l, i).Name
             /\ GuestRows(before.guests, ItemGuest(l, i).Phone) = {}
                   => Len(after.guests) = Len(before.guests) + 1

\* the item is skipped, with the Stay table as it was and the guest written
C17_SkipAfterGuest(l, i, db) ==
    /\ except_clause(l.items[i]) = "continue"
    /\ C17_GuestWritten(l, i, PrefixDb(l, i - 1, db), PrefixDb(l, i, db))

\* C17 -- in every reachable state the guest_id of every Stay row is None or
\* the id of a Guest row; and an item of handle_webhook or
\* update_tomorrows_stays whose hotel is unknown is skipped after its guest
\* has been created or updated: the skip leaves the Stay table as it was,
\* and the guest in the Guest table.
C17_GuestBeforeStay ==
    /\ []C17_StayGuestExists
    /\ [][\A i \in DOMAIN last'.items :
             C17_UnknownHotelItem(last', i)
             => C17_SkipAfterGuest(last', i, DB)]_vars

GuestIds(gs) == {gs[i].id : i \in DOMAIN gs}
StayIds(ss) == {ss[i].id : i \in DOMAIN ss}

\* C19 -- no step of handle_webhook, update_tomorrows_stays,
\* update_or_create_guest, update_or_create_stay or stay_has_breakfast
\* changes the Hotel table or removes a Guest id or a Stay id, and a step of
\* stay_has_breakfast leaves every table as it was.
C19_NothingDeleted ==
    [][/\ hotels' = hotels
       /\ GuestIds(guests) \subseteq GuestIds(guests')
       /\ StayIds(stays) \subseteq StayIds(stays')
       /\ last'.op = "stay_has_breakfast" => guests' = guests /\ stays' = stays]_vars

C19_Witness ==
    /\ last.op = "stay_has_breakfast"
    /\ last.ret = "True"
    /\ GuestIds(guests) = {1, 2}
    /\ StayIds(stays) = {1, 2}
    /\ \E i \in DOMAIN guests : guests[i].updated_at # NoTime
    /\ \E i \in DOMAIN stays : stays[i].updated_at # NoTime

\* C16 -- when reconciliations of one key run concurrently, their
\* record-store calls (the exists-check, the create, the update) interleaved
\* in any order, there is still at most one Guest row per phone and at most
\* one Stay row per vendor reservation id.
C16_OneRowPerKeyUnderInterleaving ==
    /\ \A i, j \in DOMAIN guests :
          (i # j /\ UsablePhone(guests[i].phone)) => guests[i].phone # guests[j].phone
    /\ \A i, j \in DOMAIN stays :
          i # j => stays[i].pms_reservation_id # stays[j].pms_reservation_id

====
